---------------------------- MODULE Spec2Model ----------------------------
(***************************************************************************)
(* SubtitleReader (smart-subtitle-reader): the text sanitizer, the         *)
(* three-tier segmenter, the aligner (processText) and the read session    *)
(* driven by the speech engine's events.                                   *)
(*                                                                         *)
(* A JavaScript string is a sequence of one-character strings.  Characters *)
(* outside ASCII carry an ASCII name: "ZH" is a CJK letter, "DOTW" is the  *)
(* wide full stop, "BANGW" the wide exclamation mark, "COMMAW" the wide    *)
(* comma, "SUN" is U+2600 (a pictograph of one UTF-16 unit) and "+" is a   *)
(* symbol of category Sm.  Positions are 0-based as in the source.         *)
(***************************************************************************)
EXTENDS Integers, Sequences, FiniteSets, TLC

VARIABLES
  maxTextWidth,   \* config.maxTextWidth
  font,           \* the width oracle behind textContext.measureText
  segText,        \* argument of smartSplitText
  segUnits,       \* units returned by smartSplitText
  segPc,          \* "call" before the call, "ret" after it
  sanIn,          \* argument of filterTextKeepLength
  sanOut,         \* its result
  sanPc,
  textLines,      \* lines extracted from the rendered document
  aligned,        \* result of processText
  alignPc,
  maxWindowWidth, \* config.maxWindowWidth
  standalone,     \* config.standalone
  marked,         \* window.marked is loaded
  voices,         \* speechSynthesis.getVoices() is not empty
  onvoiceschanged,\* speechSynthesis.onvoiceschanged holds setText's handler
  timers,         \* pending setTimeout(() => this.startReading(), 500)
  reads,          \* calls of setText so far
  content,        \* elements.content, as the lines its text nodes hold
  subtitle,       \* elements.subtitle.innerHTML
  className,      \* elements.subtitle.className
  utterances,     \* every utterance spoken so far with the closure of its
                  \* handlers; the last one is the current read session
  effects,        \* what the handler that ran last emitted, in order
  lastEvent,      \* the case of onboundary the last handler run fell in,
                  \* "none" when it was no onboundary
  aborted,        \* stopReading was called and setText not since
  forceLoop,      \* the locals of a running forceSplitText
  voiceList,      \* speechSynthesis.getVoices()
  targetVoiceName,\* config.targetVoiceName
  selectedVoice,  \* result of findTargetVoice: <<voice>>, <<>> for undefined
  voicePc,
  mdLines,        \* lines extracted for the deletion-based processSubtitleText
  subtitleData,   \* its result
  deletionPc

configVars == <<maxTextWidth, font>>
segVars == <<segText, segUnits, segPc>>
sanVars == <<sanIn, sanOut, sanPc>>
alignVars == <<textLines, aligned, alignPc>>
envVars == <<maxWindowWidth, standalone, marked>>
readerVars == <<voices, onvoiceschanged, timers, reads, content, subtitle,
                className, utterances, effects, lastEvent, aborted>>
forceVars == <<forceLoop>>
voiceVars == <<voiceList, targetVoiceName, selectedVoice, voicePc>>
deletionVars == <<mdLines, subtitleData, deletionPc>>
auxVars == <<forceVars, voiceVars, deletionVars>>
vars == <<configVars, segVars, sanVars, alignVars, envVars, readerVars, auxVars>>

---------------------------------------------------------------------------
(* Character classes of the regular expressions.                           *)

AsciiLower == {"a","b","c","d","e","f","g","h","i","j","k","l","m",
               "n","o","p","q","r","s","t","u","v","w","x","y","z"}
AsciiUpper == {"A","B","C","D","E","F","G","H","I","J","K","L","M",
               "N","O","P","Q","R","S","T","U","V","W","X","Y","Z"}
AsciiLetter == AsciiLower \cup AsciiUpper
Digit == {"0","1","2","3","4","5","6","7","8","9"}
AlNum == AsciiLetter \cup Digit
Wide == {"ZH", "DOTW", "BANGW", "QUESTW", "COMMAW", "PAUSEW", "SEMIW"}
UniLetter == AsciiLetter \cup {"ZH"}
UniPunct == {".", ",", "!", "?", ";", ":", "/", "-", "@", "%", "_",
             "DOTW", "BANGW", "QUESTW", "COMMAW", "PAUSEW", "SEMIW"}
WhiteSpace == {" "}
Pictograph == {"SUN"}
SentenceMark == {"DOTW", "BANGW", "QUESTW", "!", "?"}
ClauseMark == {"COMMAW", "PAUSEW", "SEMIW", ",", ".", ";"}
HostStart == AlNum
HostChar == AlNum \cup {"-"}
MailLocal == AlNum \cup {".", "_", "%", "+", "-"}
MailDomain == AlNum \cup {".", "-"}

---------------------------------------------------------------------------
(* String primitives (String.prototype).                                   *)

substring(s, a, b) == SubSeq(s, a + 1, b)

charAt(s, i) == IF i >= 0 /\ i < Len(s) THEN s[i + 1] ELSE "EOS"

startsWithAt(s, i, lit) ==
  /\ i + Len(lit) <= Len(s)
  /\ substring(s, i, i + Len(lit)) = lit

\* first position >= i whose character is outside cls, Len(s) when none
RECURSIVE runEnd(_, _, _)
runEnd(s, i, cls) ==
  IF i < Len(s) /\ s[i + 1] \in cls THEN runEnd(s, i + 1, cls) ELSE i

\* first position >= i whose character is in cls, Len(s) when none
RECURSIVE findIn(_, _, _)
findIn(s, i, cls) ==
  IF i < Len(s) /\ s[i + 1] \notin cls THEN findIn(s, i + 1, cls) ELSE i

spaces(n) == [k \in 1..n |-> " "]

\* the lines put end to end without the separator
joinNoSeparator(lines) ==
  LET RECURSIVE go(_)
      go(k) == IF k = 0 THEN <<>> ELSE go(k - 1) \o lines[k]
  IN go(Len(lines))

join(lines) ==
  LET RECURSIVE go(_)
      go(k) == IF k = 0 THEN <<>>
               ELSE IF k = 1 THEN lines[1]
               ELSE go(k - 1) \o <<" ">> \o lines[k]
  IN go(Len(lines))

indexOf(hay, needle, from) ==
  LET cand == {p \in from..(Len(hay) - Len(needle)) :
                 substring(hay, p, p + Len(needle)) = needle}
  IN IF cand = {} THEN -1 ELSE CHOOSE p \in cand : \A q \in cand : p <= q

trim(s) ==
  LET a == runEnd(s, 0, WhiteSpace)
      RECURSIVE back(_)
      back(e) == IF e > a /\ s[e] \in WhiteSpace THEN back(e - 1) ELSE e
  IN substring(s, a, back(Len(s)))

---------------------------------------------------------------------------
(* Text Sanitizer: filterTextKeepLength and filterTextComplete.            *)

\* /https?:\/\/[^\s]+/ tried at position i: the end of the match, or -1
matchHttp(s, i) ==
  LET lit == <<"h","t","t","p">>
      sep == <<":","/","/">>
      p == IF startsWithAt(s, i, lit \o <<"s">> \o sep)
              /\ charAt(s, i + 8) \notin WhiteSpace \cup {"EOS"} THEN i + 8
           ELSE IF startsWithAt(s, i, lit \o sep)
              /\ charAt(s, i + 7) \notin WhiteSpace \cup {"EOS"} THEN i + 7
           ELSE -1
  IN IF p = -1 THEN -1 ELSE findIn(s, p, WhiteSpace)

\* /www\.[^\s]+/
matchWww(s, i) ==
  IF startsWithAt(s, i, <<"w","w","w",".">>)
     /\ charAt(s, i + 4) \notin WhiteSpace \cup {"EOS"}
  THEN findIn(s, i + 4, WhiteSpace) ELSE -1

\* /[a-zA-Z0-9][a-zA-Z0-9-]*\.[a-zA-Z]{2,}(\.[a-zA-Z]{2,})?[^\s]*/
\* the greedy host run must stop at a '.', two letters must follow, and the
\* trailing [^\s]* then runs to the next whitespace
matchHost(s, i) ==
  IF charAt(s, i) \notin HostStart THEN -1
  ELSE LET d == runEnd(s, i + 1, HostChar)
       IN IF /\ charAt(s, d) = "."
             /\ charAt(s, d + 1) \in AsciiLetter
             /\ charAt(s, d + 2) \in AsciiLetter
          THEN findIn(s, d + 3, WhiteSpace) ELSE -1

\* /[a-zA-Z0-9._%+-]+@[a-zA-Z0-9.-]+\.[a-zA-Z]{2,}/
\* the greedy domain run backtracks to its last '.' that has one domain
\* character before it and two letters after it
matchMail(s, i) ==
  LET at == runEnd(s, i, MailLocal)
      r == runEnd(s, at + 1, MailDomain)
      dots == {d \in (at + 2)..(r - 1) :
                 /\ s[d + 1] = "."
                 /\ charAt(s, d + 1) \in AsciiLetter
                 /\ charAt(s, d + 2) \in AsciiLetter}
  IN IF at > i /\ charAt(s, at) = "@" /\ dots # {}
     THEN LET d == CHOOSE x \in dots : \A y \in dots : y <= x
          IN runEnd(s, d + 1, AsciiLetter)
     ELSE -1

matchEnd(rx, s, i) ==
  CASE rx = "http" -> matchHttp(s, i)
    [] rx = "www" -> matchWww(s, i)
    [] rx = "host" -> matchHost(s, i)
    [] rx = "mail" -> matchMail(s, i)

\* text.replace(rx /g, ...): every match, leftmost first, becomes a run of
\* spaces of its own length (keep) or nothing
replaceLinks(s, rx, keep) ==
  LET RECURSIVE go(_, _)
      go(i, acc) ==
        IF i >= Len(s) THEN acc
        ELSE LET e == matchEnd(rx, s, i)
             IN IF e # -1
                THEN go(e, acc \o (IF keep THEN spaces(e - i) ELSE <<>>))
                ELSE go(i + 1, Append(acc, s[i + 1]))
  IN go(0, <<>>)

\* .replace(/[\u{1F000}-\u{1FFFF}\u{2600}-\u{27BF}\u{2B50}\u{2B55}]/gu, '')
removePictographs(s) == SelectSeq(s, LAMBDA c : c \notin Pictograph)

\* .replace(/[^\p{L}\p{N}\p{P}\p{Z}\p{M}]/gu, '')
removeSymbols(s) ==
  SelectSeq(s, LAMBDA c : c \in UniLetter \cup Digit \cup UniPunct \cup WhiteSpace)

\* .replace(/\s+/g, ' ')
collapseSpaces(s) ==
  LET RECURSIVE go(_, _)
      go(i, acc) ==
        IF i >= Len(s) THEN acc
        ELSE IF s[i + 1] \in WhiteSpace
             THEN go(runEnd(s, i, WhiteSpace), Append(acc, " "))
             ELSE go(i + 1, Append(acc, s[i + 1]))
  IN go(0, <<>>)

filterTextKeepLength(text) ==
  collapseSpaces(removeSymbols(removePictographs(
    replaceLinks(replaceLinks(replaceLinks(replaceLinks(
      text, "http", TRUE), "www", TRUE), "host", TRUE), "mail", TRUE))))

filterTextComplete(text) ==
  trim(collapseSpaces(removeSymbols(removePictographs(
    replaceLinks(replaceLinks(replaceLinks(replaceLinks(
      text, "http", FALSE), "www", FALSE), "host", FALSE), "mail", FALSE)))))

---------------------------------------------------------------------------
(* Width Oracle: getTextWidth.                                             *)

WidthPad == 60

Fonts == {"mono", "cjk", "kern"}

\* textContext.measureText(text).width under the three fonts of the model:
\* "mono" gives every character 2, "cjk" gives a wide character 4, and
\* "kern" is "cjk" with each pair of equal adjacent letters drawn 1 closer
charWidth(c) == IF font # "mono" /\ c \in Wide THEN 4 ELSE 2

measureText(text) ==
  LET RECURSIVE sum(_)
      sum(k) == IF k = 0 THEN 0 ELSE sum(k - 1) + charWidth(text[k])
      pairs == {k \in 1..(Len(text) - 1) :
                  text[k] = text[k + 1] /\ text[k] \in UniLetter}
  IN sum(Len(text)) - (IF font = "kern" THEN Cardinality(pairs) ELSE 0)

getTextWidth(text) == measureText(text) + WidthPad

\* the comparison made strict
fitsStrict(text) == getTextWidth(text) < maxTextWidth

fits(text) == getTextWidth(text) <= maxTextWidth

---------------------------------------------------------------------------
(* Segmenter: smartSplitText, splitByPunctuation, forceSplitText.          *)

\* the positions counted from the start of the piece, not of the line
unitOfPiece(t, a, b) == [text |-> t, start |-> 0, end |-> Len(t)]

unitOf(t, a, b) == [text |-> t, start |-> a, end |-> b]

\* the step back left out: the overflowing accumulation is emitted
stepBackMissing(currentText) == currentText

\* currentText.slice(0, -1) when more than one character was accumulated
stepBack(currentText) ==
  IF Len(currentText) > 1
  THEN SubSeq(currentText, 1, Len(currentText) - 1)
  ELSE currentText

forceSplitText(text, basePosition) ==
  LET RECURSIVE loop(_, _, _, _)
      loop(i, currentText, startPos, units) ==
        IF i >= Len(text)
        THEN IF currentText # <<>>
             THEN Append(units, unitOf(currentText, basePosition + startPos,
                                       basePosition + Len(text)))
             ELSE units
        ELSE LET grown == Append(currentText, text[i + 1])
             IN IF ~fits(grown)
                THEN LET cut == stepBack(grown)
                         i2 == IF Len(grown) > 1 THEN i - 1 ELSE i
                     IN loop(i2 + 1, <<>>, i2 + 1,
                             Append(units,
                                    unitOf(cut, basePosition + startPos,
                                           basePosition + startPos + Len(cut))))
                ELSE loop(i + 1, grown, startPos, units)
  IN loop(0, <<>>, 0, <<>>)

\* every remainder taken for text
keepRemainderAlways(remaining) == TRUE

\* if (remaining.trim()): the text left after the last match is kept when
\* something other than white space is in it
keepRemainder(remaining) == trim(remaining) # <<>>

\* [...text.matchAll(/[^，、；,.;]+[，、；,.;]?/g)]: each maximal run of
\* characters that are no clause mark, with the clause mark after it if any
punctMatches(text) ==
  LET RECURSIVE scan(_, _)
      scan(i, acc) ==
        LET s == runEnd(text, i, ClauseMark)
        IN IF s >= Len(text) THEN acc
           ELSE LET e == findIn(text, s, ClauseMark)
                    stop == IF e < Len(text) THEN e + 1 ELSE e
                IN scan(stop, Append(acc, [index |-> s,
                                           text |-> substring(text, s, stop)]))
  IN scan(0, <<>>)

\* the sentence pattern with the wide marks only
sentenceMatchesWideOnly(text) ==
  LET wide == {"DOTW", "BANGW", "QUESTW"}
      RECURSIVE scan(_, _)
      scan(i, acc) ==
        LET s == runEnd(text, i, wide)
        IN IF s >= Len(text) THEN acc
           ELSE LET e == findIn(text, s, wide)
                IN IF e >= Len(text) THEN acc
                   ELSE scan(e + 1, Append(acc, [index |-> s,
                                                 text |-> substring(text, s, e + 1)]))
  IN scan(0, <<>>)

\* [...text.matchAll(/[^。！？!?]+[。！？!?]/g)]: each maximal run of characters
\* that are no sentence mark, when a sentence mark ends it
sentenceMatches(text) ==
  LET RECURSIVE scan(_, _)
      scan(i, acc) ==
        LET s == runEnd(text, i, SentenceMark)
        IN IF s >= Len(text) THEN acc
           ELSE LET e == findIn(text, s, SentenceMark)
                IN IF e >= Len(text) THEN acc
                   ELSE scan(e + 1, Append(acc, [index |-> s,
                                                 text |-> substring(text, s, e + 1)]))
  IN scan(0, <<>>)

splitByPunctuation(text, basePosition) ==
  LET matches == punctMatches(text)
      RECURSIVE each(_, _)
      each(m, units) ==
        IF m > Len(matches) THEN units
        ELSE LET phrase == matches[m].text
                 start == basePosition + matches[m].index
                 end == start + Len(phrase)
             IN each(m + 1,
                     IF fits(phrase)
                     THEN Append(units, unitOf(phrase, start, end))
                     ELSE units \o forceSplitText(phrase, start))
      currentPos == matches[Len(matches)].index + Len(matches[Len(matches)].text)
      remaining == substring(text, currentPos, Len(text))
      units == each(1, <<>>)
  IN IF Len(matches) > 0
     THEN IF currentPos < Len(text) /\ keepRemainder(remaining)
          THEN IF fits(remaining)
               THEN Append(units, unitOf(remaining, basePosition + currentPos,
                                         basePosition + Len(text)))
               ELSE units \o forceSplitText(remaining, basePosition + currentPos)
          ELSE units
     ELSE forceSplitText(text, basePosition)

smartSplitText(text) ==
  LET matches == sentenceMatches(text)
      RECURSIVE each(_, _)
      each(m, units) ==
        IF m > Len(matches) THEN units
        ELSE LET sentence == matches[m].text
                 start == matches[m].index
                 end == start + Len(sentence)
             IN each(m + 1,
                     IF fits(sentence)
                     THEN Append(units, unitOf(sentence, start, end))
                     ELSE units \o splitByPunctuation(sentence, start))
      currentPos == matches[Len(matches)].index + Len(matches[Len(matches)].text)
      remaining == substring(text, currentPos, Len(text))
      units == each(1, <<>>)
  IN IF fits(text) THEN <<unitOf(text, 0, Len(text))>>
     ELSE IF Len(matches) > 0
     THEN IF currentPos < Len(text) /\ keepRemainder(remaining)
          THEN IF fits(remaining)
               THEN Append(units, unitOf(remaining, currentPos, Len(text)))
               ELSE units \o splitByPunctuation(remaining, currentPos)
          ELSE units
     ELSE splitByPunctuation(text, 0)

---------------------------------------------------------------------------
(* Aligner: processText, on the lines its tree walk extracted.             *)

\* unitIndex read one too high
mapUnitOffByOne(st, cleanedText, readingLine, unit) ==
  LET unitIndex == Len(st.displayUnits) + 1
      unitPos == indexOf(cleanedText, readingLine, st.currentPos)
      unitEnd == unitPos + Len(readingLine)
  IN IF unitPos # -1
     THEN [displayUnits |-> Append(st.displayUnits,
                                   unitOf(unit.text, unitPos, unitEnd)),
           charToUnitMap |-> [k \in 1..Len(cleanedText) |->
                                IF k - 1 >= unitPos /\ k - 1 < unitEnd
                                THEN unitIndex ELSE st.charToUnitMap[k]],
           currentPos |-> unitEnd]
     ELSE st

\* the cursor left where it was
mapUnitNoAdvance(st, cleanedText, readingLine, unit) ==
  LET unitIndex == Len(st.displayUnits)
      unitPos == indexOf(cleanedText, readingLine, st.currentPos)
      unitEnd == unitPos + Len(readingLine)
  IN IF unitPos # -1
     THEN [displayUnits |-> Append(st.displayUnits,
                                   unitOf(unit.text, unitPos, unitEnd)),
           charToUnitMap |-> [k \in 1..Len(cleanedText) |->
                                IF k - 1 >= unitPos /\ k - 1 < unitEnd
                                THEN unitIndex ELSE st.charToUnitMap[k]],
           currentPos |-> st.currentPos]
     ELSE st

\* start and end taken over from the segmenter
mapUnitLineLocal(st, cleanedText, readingLine, unit) ==
  LET unitIndex == Len(st.displayUnits)
      unitPos == indexOf(cleanedText, readingLine, st.currentPos)
      unitEnd == unitPos + Len(readingLine)
  IN IF unitPos # -1
     THEN [displayUnits |-> Append(st.displayUnits, unit),
           charToUnitMap |-> [k \in 1..Len(cleanedText) |->
                                IF k - 1 >= unitPos /\ k - 1 < unitEnd
                                THEN unitIndex ELSE st.charToUnitMap[k]],
           currentPos |-> unitEnd]
     ELSE st

\* the body of the loop over a line's units (j)
mapUnit(st, cleanedText, readingLine, unit) ==
  LET unitIndex == Len(st.displayUnits)
      unitPos == indexOf(cleanedText, readingLine, st.currentPos)
      unitEnd == unitPos + Len(readingLine)
  IN IF unitPos # -1
     THEN [displayUnits |-> Append(st.displayUnits,
                                   unitOf(unit.text, unitPos, unitEnd)),
           charToUnitMap |-> [k \in 1..Len(cleanedText) |->
                                IF k - 1 >= unitPos /\ k - 1 < unitEnd
                                THEN unitIndex ELSE st.charToUnitMap[k]],
           currentPos |-> unitEnd]
     ELSE st

\* history of the loop over the lines (i): origin[u + 1] is the line whose
\* iteration pushed unit u
pushedFrom(st, after, i) ==
  [displayUnits |-> after.displayUnits,
   charToUnitMap |-> after.charToUnitMap,
   currentPos |-> after.currentPos,
   origin |-> st.origin
                \o [k \in 1..(Len(after.displayUnits) - Len(st.displayUnits))
                      |-> i]]

\* Each loop state is bound by a set constructor, so that it is computed
\* once before the next iteration reads it.
processText(lines) ==
  LET readingLines == [i \in 1..Len(lines) |-> filterTextKeepLength(lines[i])]
      displayLines == [i \in 1..Len(lines) |-> filterTextComplete(lines[i])]
      cleanedText == join(readingLines)
      RECURSIVE perUnit(_, _, _, _, _)
      perUnit(st, text, readingLine, units, j) ==
        IF j > Len(units) THEN st
        ELSE CHOOSE r \in {perUnit(next, text, readingLine, units, j + 1) :
                             next \in {mapUnit(st, text, readingLine, units[j])}} :
               TRUE
      RECURSIVE perLine(_, _, _, _, _)
      perLine(st, text, reading, display, i) ==
        IF i > Len(lines) THEN st
        ELSE IF display[i] = <<>> THEN perLine(st, text, reading, display, i + 1)
        ELSE CHOOSE r \in {perLine(next, text, reading, display, i + 1) :
                             next \in {pushedFrom(st, after, i) :
                                         after \in {perUnit(st, text, reading[i], units, 1) :
                                                      units \in {smartSplitText(display[i])}}}} :
               TRUE
      init(text) == [displayUnits |-> <<>>,
                     charToUnitMap |-> [k \in 1..Len(text) |-> -1],
                     currentPos |-> 0,
                     origin |-> <<>>]
      run(text, reading, display) ==
        CHOOSE r \in {[displayUnits |-> final.displayUnits,
                       charToUnitMap |-> final.charToUnitMap,
                       cleanedText |-> text,
                       origin |-> final.origin] :
                        final \in {perLine(st, text, reading, display, 1) :
                                     st \in {init(text)}}} :
          TRUE
  IN CHOOSE r \in {run(text, reading, display) :
                     text \in {cleanedText},
                     reading \in {readingLines},
                     display \in {displayLines}} :
       TRUE

---------------------------------------------------------------------------
(* Inputs of the model.                                                    *)

MaxLen == 4
MaxLineLen == 2
MaxLines == 2

\* strings over chars of length 1..n
StringsUpTo(chars, n) == UNION {[1..k -> chars] : k \in 1..n}

SegChars == {"a", "ZH", "!", "DOTW", ",", ".", " "}
SegWidths == {61, 62, 64, 66}

Url == <<"h","t","t","p","s",":","/","/","e",".","c","o","/","p">>
Www == <<"w","w","w",".","e">>
SanLinks == {Url, Www, <<"e",".","c","o">>, <<"h","t","t","p",":","/","/","e">>}
SanChars == {"a", "b", ",", " "}

\* a line as extractLinesFromHTML / processText's walk leaves it: trimmed,
\* not empty
IsLine(s) == s # <<>> /\ trim(s) = s

\* prose without noise: trimmed, single-spaced, nothing link-like
SanProse == {s \in StringsUpTo(SanChars, MaxLen) :
               IsLine(s) /\ collapseSpaces(s) = s}

LineChars == {"a", ",", " "}
LinkLine == <<"h","t","t","p",":","/","/","e"," ","a">>
YesLine == <<"Y","e","s",".">>
AlignLines == {s \in StringsUpTo(LineChars, MaxLineLen) : IsLine(s)}
                \cup {LinkLine, YesLine, <<"SUN">>,
                      <<"a", ",", "a">>, <<"a", " ", "a">>}
AlignWidths == {62, 64, 100}

idleSeg == segText = <<>> /\ segUnits = <<>> /\ segPc = "idle"
idleSan == sanIn = <<>> /\ sanOut = <<>> /\ sanPc = "idle"
idleAlign == textLines = <<>> /\ aligned = <<>> /\ alignPc = "idle"

noCaption == [kind |-> "empty", text |-> <<>>, session |-> 0]

idleReader ==
  /\ maxWindowWidth = 100 /\ standalone = FALSE /\ marked = TRUE
  /\ voices = TRUE /\ onvoiceschanged = FALSE /\ timers = 0 /\ reads = 0
  /\ content = <<>> /\ subtitle = noCaption /\ className = "single-line"
  /\ utterances = <<>> /\ effects = <<>> /\ lastEvent = "none"
  /\ aborted = FALSE

idleForce == forceLoop = [pc |-> "idle"]
idleVoice ==
  /\ voiceList = <<>> /\ targetVoiceName = <<>>
  /\ selectedVoice = <<>> /\ voicePc = "idle"
idleDeletion == mdLines = <<>> /\ subtitleData = <<>> /\ deletionPc = "idle"
idleAux == idleForce /\ idleVoice /\ idleDeletion

---------------------------------------------------------------------------
(* SpecSeg: one call of smartSplitText on any line, width and font.        *)

InitSeg ==
  /\ maxTextWidth \in SegWidths
  /\ font \in Fonts
  /\ segText \in StringsUpTo(SegChars, MaxLen)
  /\ segUnits = <<>>
  /\ segPc = "call"
  /\ idleSan /\ idleAlign /\ idleReader /\ idleAux

Segment ==
  /\ segPc = "call"
  /\ segUnits' = smartSplitText(segText)
  /\ segPc' = "ret"
  /\ UNCHANGED <<auxVars, configVars, segText, sanVars, alignVars, envVars, readerVars>>

NextSeg == Segment

SpecSeg == InitSeg /\ [][NextSeg]_vars

---------------------------------------------------------------------------
(* SpecSan: one call of filterTextKeepLength on a link followed by prose.  *)

InitSan ==
  /\ maxTextWidth = 100
  /\ font = "cjk"
  /\ \E link \in SanLinks, prose \in SanProse :
       sanIn = link \o <<" ">> \o prose
  /\ sanOut = <<>>
  /\ sanPc = "call"
  /\ idleSeg /\ idleAlign /\ idleReader /\ idleAux

Sanitize ==
  /\ sanPc = "call"
  /\ sanOut' = filterTextKeepLength(sanIn)
  /\ sanPc' = "ret"
  /\ UNCHANGED <<auxVars, configVars, segVars, sanIn, alignVars, envVars, readerVars>>

NextSan == Sanitize

SpecSan == InitSan /\ [][NextSan]_vars

---------------------------------------------------------------------------
(* SpecAlign: one call of processText on any document of extracted lines.  *)

InitAlign ==
  /\ maxTextWidth \in AlignWidths
  /\ font = "cjk"
  /\ textLines \in StringsUpTo(AlignLines, MaxLines)
  /\ aligned = <<>>
  /\ alignPc = "call"
  /\ idleSeg /\ idleSan /\ idleReader /\ idleAux

Align ==
  /\ alignPc = "call"
  /\ aligned' = processText(textLines)
  /\ alignPc' = "ret"
  /\ UNCHANGED <<auxVars, configVars, segVars, sanVars, textLines, envVars, readerVars>>

NextAlign == Align

SpecAlign == InitAlign /\ [][NextAlign]_vars

---------------------------------------------------------------------------
(* The reader: setText, startReading and the utterance's handlers, run by  *)
(* the timers and by the events of the speech engine.                      *)

MaxReads == 2

LoadingText == <<"ZH", "ZH", "ZH", ".", ".", ".">>
DoneText == <<"ZH", "ZH">>

ReaderDocs == {<<LinkLine>>, <<YesLine, YesLine>>}
ReaderWidths == {64}
EventNames == {"word", "sentence", "mark"}

effect(type, session, unit) == [type |-> type, session |-> session, unit |-> unit]

showAnimation(type) == [kind |-> type, text |-> <<>>, session |-> 0]

\* the class of the caption and whether the window was resized and moved
adjustWindowSize(text, current) ==
  IF ~standalone THEN [className |-> current, window |-> <<>>]
  ELSE IF getTextWidth(text) > maxWindowWidth
       THEN [className |-> "multi-line", window |-> <<effect("resize", 0, -1)>>]
       ELSE [className |-> "single-line", window |-> <<effect("resize", 0, -1)>>]

\* a cancel that stops nothing
cancelNothing(us) == us

\* speechSynthesis.cancel(): what is being spoken stops; events the engine
\* had already reported for it may still be delivered
cancel(us) ==
  [k \in 1..Len(us) |->
     IF us[k].status = "speaking" THEN [us[k] EXCEPT !.status = "cancelled"]
     ELSE us[k]]

\* the string startReading hands to new SpeechSynthesisUtterance
utteranceText(cleanedText) == filterTextComplete(cleanedText)

\* onboundary without the comparison with currentUnitIndex
onboundaryEveryEvent(u, name, charIndex) ==
  LET same == [currentUnitIndex |-> u.currentUnitIndex, show |-> -1]
  IN IF name # "word" /\ name # "sentence" THEN same
     ELSE IF charIndex < Len(u.charToUnitMap)
     THEN LET unitIndex == u.charToUnitMap[charIndex + 1]
          IN IF unitIndex # -1
             THEN [currentUnitIndex |-> unitIndex,
                   show |-> IF unitIndex < Len(u.displayUnits)
                            THEN unitIndex ELSE -1]
             ELSE same
     ELSE same

\* onboundary that moves forward only
onboundaryForwardOnly(u, name, charIndex) ==
  LET same == [currentUnitIndex |-> u.currentUnitIndex, show |-> -1]
  IN IF name # "word" /\ name # "sentence" THEN same
     ELSE IF charIndex < Len(u.charToUnitMap)
     THEN LET unitIndex == u.charToUnitMap[charIndex + 1]
          IN IF unitIndex # -1 /\ unitIndex > u.currentUnitIndex
             THEN [currentUnitIndex |-> unitIndex,
                   show |-> IF unitIndex < Len(u.displayUnits)
                            THEN unitIndex ELSE -1]
             ELSE same
     ELSE same

\* onboundary without the test for the sentinel
onboundaryNoSentinel(u, name, charIndex) ==
  LET same == [currentUnitIndex |-> u.currentUnitIndex, show |-> -1]
  IN IF name # "word" /\ name # "sentence" THEN same
     ELSE IF charIndex < Len(u.charToUnitMap)
     THEN LET unitIndex == u.charToUnitMap[charIndex + 1]
          IN IF unitIndex # u.currentUnitIndex
             THEN [currentUnitIndex |-> unitIndex,
                   show |-> IF unitIndex >= 0 /\ unitIndex < Len(u.displayUnits)
                            THEN unitIndex ELSE -1]
             ELSE same
     ELSE same

\* utterance.onboundary on closure u: the new currentUnitIndex and the unit
\* shown (-1: none)
onboundary(u, name, charIndex) ==
  LET same == [currentUnitIndex |-> u.currentUnitIndex, show |-> -1]
  IN IF name # "word" /\ name # "sentence" THEN same
     ELSE IF charIndex < Len(u.charToUnitMap)
     THEN LET unitIndex == u.charToUnitMap[charIndex + 1]
          IN IF unitIndex # -1 /\ unitIndex # u.currentUnitIndex
             THEN [currentUnitIndex |-> unitIndex,
                   show |-> IF unitIndex < Len(u.displayUnits)
                            THEN unitIndex ELSE -1]
             ELSE same
     ELSE same

\* which case of onboundary an event delivered to closure u falls in
eventCase(u, name, charIndex) ==
  IF name # "word" /\ name # "sentence" THEN "kind"
  ELSE IF charIndex >= Len(u.charToUnitMap) THEN "past-end"
  ELSE IF u.charToUnitMap[charIndex + 1] = -1 THEN "sentinel"
  ELSE IF u.charToUnitMap[charIndex + 1] = u.currentUnitIndex THEN "repeat"
  ELSE IF u.charToUnitMap[charIndex + 1] > u.currentUnitIndex THEN "forward"
  ELSE "back"

InitReader ==
  /\ maxTextWidth \in ReaderWidths
  /\ font = "cjk"
  /\ maxWindowWidth = 62
  /\ standalone \in BOOLEAN
  /\ marked \in BOOLEAN
  /\ voices \in BOOLEAN
  /\ onvoiceschanged = FALSE
  /\ timers = 0
  /\ reads = 0
  /\ content = <<>>
  /\ subtitle = noCaption
  /\ className = "single-line"
  /\ utterances = <<>>
  /\ effects = <<>>
  /\ lastEvent = "none"
  /\ aborted = FALSE
  /\ idleSeg /\ idleSan /\ idleAlign /\ idleAux

\* the parser taken for loaded
parserAssumed == TRUE

\* window.marked, as setText tests it
parserLoaded == marked

SetText(doc) ==
  /\ reads < MaxReads
  /\ reads' = reads + 1
  /\ lastEvent' = "none"
  /\ IF ~parserLoaded
     THEN /\ effects' = <<effect("error", 0, -1)>>
          /\ UNCHANGED <<content, subtitle, timers, onvoiceschanged, aborted>>
     ELSE /\ content' = doc
          /\ aborted' = FALSE
          /\ subtitle' = showAnimation("loading")
          /\ effects' = <<effect("loading", 0, -1)>>
                          \o (IF standalone THEN <<effect("resize", 0, -1)>>
                              ELSE <<>>)
          /\ IF voices
             THEN timers' = timers + 1 /\ UNCHANGED onvoiceschanged
             ELSE onvoiceschanged' = TRUE /\ UNCHANGED timers
  /\ UNCHANGED <<auxVars, configVars, segVars, sanVars, alignVars, envVars,
                 voices, className, utterances>>

\* the engine's voice list arrives; setText's handler, when installed,
\* removes itself and schedules startReading
VoicesChanged ==
  /\ ~voices \/ onvoiceschanged
  /\ voices' = TRUE
  /\ onvoiceschanged' = FALSE
  /\ timers' = IF onvoiceschanged THEN timers + 1 ELSE timers
  /\ effects' = <<>>
  /\ lastEvent' = "none"
  /\ UNCHANGED aborted
  /\ UNCHANGED <<auxVars, configVars, segVars, sanVars, alignVars, envVars,
                 reads, content, subtitle, className, utterances>>

\* a timer fires: startReading
StartReading ==
  /\ timers > 0
  /\ timers' = timers - 1
  /\ lastEvent' = "none"
  /\ UNCHANGED aborted
  /\ \E r \in {processText(content)} :
     LET size == adjustWindowSize(LoadingText, className)
         session == Len(utterances) + 1
     IN /\ subtitle' = showAnimation("loading")
        /\ className' = size.className
        /\ utterances' =
             Append(cancel(utterances),
                    [displayUnits |-> r.displayUnits,
                     charToUnitMap |-> r.charToUnitMap,
                     cleanedText |-> r.cleanedText,
                     text |-> utteranceText(r.cleanedText),
                     currentUnitIndex |-> -1,
                     status |-> "speaking",
                     completes |-> 0,
                     run |-> [unit |-> -1, shows |-> 0, events |-> 0]])
        /\ effects' = <<effect("loading", session, -1)>> \o size.window
                        \o <<effect("cancel", session, -1),
                             effect("speak", session, -1),
                             effect("reading-start", session, -1)>>
  /\ UNCHANGED <<auxVars, configVars, segVars, sanVars, alignVars, envVars,
                 voices, onvoiceschanged, reads, content>>

\* the offsets the engine reports for utterance u.  The handler reads nothing
\* of an offset but the cell it indexes, so the first offset of every run of
\* equal cells and the offset past the last cell stand for all offsets.
eventOffsets(u) ==
  {i \in 0..Len(u.charToUnitMap) :
     \/ i = 0
     \/ i = Len(u.charToUnitMap)
     \/ u.charToUnitMap[i + 1] # u.charToUnitMap[i]}

\* the engine reports progress on utterance s, also one it reported before
\* the utterance was cancelled.  run is the history of the events delivered
\* to s: the unit the latest event that resolved to a unit resolved to,
\* whether one event (1) or several in a row (2) resolved to it, and how many
\* times the handler showed a unit since the first of them.
Boundary(s, name, charIndex) ==
  /\ utterances[s].status \in {"speaking", "cancelled"}
  /\ LET u == utterances[s]
         r == onboundary(u, name, charIndex)
         shown == r.show # -1
         text == u.displayUnits[r.show + 1].text
         size == adjustWindowSize(text, className)
         resolved == IF name \in {"word", "sentence"}
                        /\ charIndex < Len(u.charToUnitMap)
                     THEN u.charToUnitMap[charIndex + 1] ELSE -1
         run == IF resolved = -1 THEN u.run
                ELSE IF resolved = u.run.unit
                THEN [unit |-> resolved,
                      shows |-> u.run.shows + (IF shown THEN 1 ELSE 0),
                      events |-> 2]
                ELSE [unit |-> resolved,
                      shows |-> IF shown THEN 1 ELSE 0,
                      events |-> 1]
     IN /\ utterances' = [utterances EXCEPT
                            ![s].currentUnitIndex = r.currentUnitIndex,
                            ![s].run = run]
        /\ subtitle' = IF shown
                       THEN [kind |-> "text", text |-> text, session |-> s]
                       ELSE subtitle
        /\ className' = IF shown THEN size.className ELSE className
        /\ effects' = IF shown
                      THEN <<effect("show", s, r.show)>> \o size.window
                      ELSE <<>>
        /\ lastEvent' = eventCase(u, name, charIndex)
        /\ UNCHANGED aborted
  /\ UNCHANGED <<auxVars, configVars, segVars, sanVars, alignVars, envVars,
                 voices, onvoiceschanged, timers, reads, content>>

\* an utterance the engine is done with: no event reaches its handlers any
\* more, the closure is garbage; completes counts the reading-complete events
\* its onend dispatched
finished(status, completes) ==
  [displayUnits |-> <<>>, charToUnitMap |-> <<>>, cleanedText |-> <<>>,
   text |-> <<>>, currentUnitIndex |-> -1, status |-> status,
   completes |-> completes,
   run |-> [unit |-> -1, shows |-> 0, events |-> 0]]

\* utterance.onend: the utterance was spoken to its end, or the engine ends
\* a cancelled utterance with an end event
End(s) ==
  /\ utterances[s].status \in {"speaking", "cancelled"}
  /\ LET size == adjustWindowSize(DoneText, className)
     IN /\ subtitle' = showAnimation("completion")
        /\ className' = size.className
        /\ effects' = <<effect("completion", s, -1)>> \o size.window
                        \o (IF standalone THEN <<effect("close", s, -1)>>
                            ELSE <<>>)
                        \o <<effect("reading-complete", s, -1)>>
  /\ utterances' = [utterances EXCEPT
                       ![s] = finished("ended", utterances[s].completes + 1)]
  /\ lastEvent' = "none"
  /\ UNCHANGED aborted
  /\ UNCHANGED <<auxVars, configVars, segVars, sanVars, alignVars, envVars,
                 voices, onvoiceschanged, timers, reads, content>>

\* the engine ends a cancelled utterance with an error event (interrupted,
\* canceled): no handler of the reader runs
Interrupted(s) ==
  /\ utterances[s].status = "cancelled"
  /\ utterances' = [utterances EXCEPT
                       ![s] = finished("dropped", utterances[s].completes)]
  /\ effects' = <<>>
  /\ lastEvent' = "none"
  /\ UNCHANGED aborted
  /\ UNCHANGED <<auxVars, configVars, segVars, sanVars, alignVars, envVars,
                 voices, onvoiceschanged, timers, reads, content,
                 subtitle, className>>

StopReading ==
  /\ utterances' = cancel(utterances)
  /\ subtitle' = showAnimation("completion")
  /\ lastEvent' = "none"
  /\ aborted' = TRUE
  /\ effects' = <<effect("cancel", 0, -1), effect("completion", 0, -1)>>
  /\ UNCHANGED <<auxVars, configVars, segVars, sanVars, alignVars, envVars,
                 voices, onvoiceschanged, timers, reads, content, className>>

Next ==
  \/ \E doc \in ReaderDocs : SetText(doc)
  \/ VoicesChanged
  \/ StartReading
  \/ \E s \in 1..Len(utterances), name \in EventNames :
       \E charIndex \in eventOffsets(utterances[s]) :
         Boundary(s, name, charIndex)
  \/ \E s \in 1..Len(utterances) : End(s)
  \/ \E s \in 1..Len(utterances) : Interrupted(s)
  \/ StopReading

Init == InitReader

Spec == Init /\ [][Next]_vars

----------------------------------------------------------------------------
(* SpecDeletion: SmartSubtitle.processSubtitleText, the deletion-based      *)
(* variant of processText.  Its segmenter is the one above with the test    *)
(* measureTextWidth(text) <= maxLineWidth, which is fits(text) with         *)
(* maxTextWidth standing for maxLineWidth + WidthPad.                       *)

\* SmartSubtitle.cleanText with the default configuration: pictographs and
\* every character that is no letter, digit, punctuation or separator (the
\* newline is none of them) are deleted, runs of white space become a space
cleanText(text) == collapseSpaces(removeSymbols(removePictographs(text)))

\* rawText: the lines of the document, one per line
RECURSIVE joinLines(_)
joinLines(lines) ==
  IF lines = <<>> THEN <<>>
  ELSE IF Len(lines) = 1 THEN lines[1]
  ELSE lines[1] \o <<"NL">> \o joinLines(Tail(lines))

\* cleanedLines[i]: the array was filtered, an index past its end reads
\* undefined (the empty sequence here, falsy as well)
cleanedLineAt(lines, cleanedLines, i) ==
  IF i < Len(cleanedLines) THEN cleanedLines[i + 1] ELSE <<>>

\* the body of the loop over a line's units (j)
mapCleanedUnit(st, cleanedText, linePos, unit) ==
  LET unitIndex == Len(st.displayUnits)
      cleanedUnitText == cleanText(unit.text)
      unitPos == indexOf(cleanedText, cleanedUnitText, linePos)
      unitEnd == unitPos + Len(cleanedUnitText)
  IN IF unitPos # -1
     THEN [st EXCEPT
             !.displayUnits = Append(@, [text |-> unit.text,
                                         cleanedText |-> cleanedUnitText,
                                         start |-> unitPos,
                                         end |-> unitEnd]),
             !.charToUnitMap = [k \in 1..Len(cleanedText) |->
                                  IF k - 1 >= unitPos /\ k - 1 < unitEnd
                                  THEN unitIndex ELSE @[k]]]
     ELSE st

\* located is the history of the loop over the lines: for every line the
\* text it was searched with and where it was found (-1: not found, -2: no
\* search)
processSubtitleText(lines) ==
  LET rawText == joinLines(lines)
      cleaned == cleanText(rawText)
      cleanedLines == SelectSeq([i \in 1..Len(lines) |-> cleanText(lines[i])],
                                LAMBDA line : line # <<>>)
      RECURSIVE perUnit(_, _, _, _, _)
      perUnit(st, text, linePos, units, j) ==
        IF j > Len(units) THEN st
        ELSE CHOOSE r \in {perUnit(next, text, linePos, units, j + 1) :
                             next \in {mapCleanedUnit(st, text, linePos, units[j])}} :
               TRUE
      line(st, text, kept, i) ==
        LET cleanedLine == cleanedLineAt(lines, kept, i)
            linePos == indexOf(text, cleanedLine, st.currentPos)
            searched(at) == Append(st.located, [needle |-> cleanedLine, linePos |-> at])
        IN IF cleanedLine = <<>> THEN [st EXCEPT !.located = searched(-2)]
           ELSE IF linePos = -1 THEN [st EXCEPT !.located = searched(-1)]
           ELSE CHOOSE r \in
                  {[after EXCEPT !.currentPos = linePos + Len(cleanedLine),
                                 !.located = searched(linePos)] :
                     after \in {perUnit(st, text, linePos, units, 1) :
                                  units \in {smartSplitText(lines[i + 1])}}} :
                  TRUE
      RECURSIVE perLine(_, _, _, _)
      perLine(st, text, kept, i) ==
        IF i >= Len(lines) THEN st
        ELSE CHOOSE r \in {perLine(next, text, kept, i + 1) :
                             next \in {line(st, text, kept, i)}} :
               TRUE
      init(text) == [displayUnits |-> <<>>,
                     charToUnitMap |-> [k \in 1..Len(text) |-> -1],
                     currentPos |-> 0,
                     located |-> <<>>]
      run(text, kept) ==
        CHOOSE r \in {[displayUnits |-> final.displayUnits,
                       charToUnitMap |-> final.charToUnitMap,
                       cleanedText |-> text,
                       located |-> final.located] :
                        final \in {perLine(st, text, kept, 0) :
                                     st \in {init(text)}}} :
          TRUE
  IN CHOOSE r \in {run(text, kept) : text \in {cleaned}, kept \in {cleanedLines}} :
       TRUE

DeletionLines == AlignLines \cup {<<"SUN", "a">>}

InitDeletion ==
  /\ maxTextWidth \in AlignWidths
  /\ font = "cjk"
  /\ mdLines \in StringsUpTo(DeletionLines, MaxLines)
  /\ subtitleData = <<>>
  /\ deletionPc = "call"
  /\ idleSeg /\ idleSan /\ idleAlign /\ idleReader
  /\ idleForce /\ idleVoice

ProcessSubtitleText ==
  /\ deletionPc = "call"
  /\ subtitleData' = processSubtitleText(mdLines)
  /\ deletionPc' = "ret"
  /\ UNCHANGED <<mdLines, forceVars, voiceVars, configVars, segVars, sanVars,
                 alignVars, envVars, readerVars>>

NextDeletion == ProcessSubtitleText

SpecDeletion == InitDeletion /\ [][NextDeletion]_vars

----------------------------------------------------------------------------
(* SpecForce: forceSplitText run one iteration of its for loop at a time.  *)

ForceChars == {"a", "ZH"}

\* the step back taken whatever was accumulated
stepsBackAlways(currentText) == TRUE

\* the test before the step back: currentText.length > 1
stepsBack(currentText) == Len(currentText) > 1

InitForce ==
  /\ maxTextWidth \in SegWidths
  /\ font = "cjk"
  /\ \E text \in StringsUpTo(ForceChars, MaxLen) \cup {<<>>} :
       forceLoop = [pc |-> "loop", text |-> text, i |-> 0,
                    currentText |-> <<>>, startPos |-> 0, units |-> <<>>]
  /\ idleSeg /\ idleSan /\ idleAlign /\ idleReader
  /\ idleVoice /\ idleDeletion

\* one iteration of the loop: the body, then i++
ForceStep ==
  /\ forceLoop.pc = "loop"
  /\ forceLoop.i < Len(forceLoop.text)
  /\ LET f == forceLoop
         grown == Append(f.currentText, f.text[f.i + 1])
         back == stepsBack(grown)
         cut == IF back THEN SubSeq(grown, 1, Len(grown) - 1) ELSE grown
         i == IF back THEN f.i - 1 ELSE f.i
     IN forceLoop' =
          IF ~fits(grown)
          THEN [f EXCEPT !.units = Append(@, unitOf(cut, f.startPos,
                                                    f.startPos + Len(cut))),
                         !.currentText = <<>>,
                         !.startPos = i + 1,
                         !.i = i + 1]
          ELSE [f EXCEPT !.currentText = grown, !.i = f.i + 1]
  /\ UNCHANGED <<voiceVars, deletionVars, configVars, segVars, sanVars,
                 alignVars, envVars, readerVars>>

\* the loop is left: the last part is added and the units are returned
ForceReturn ==
  /\ forceLoop.pc = "loop"
  /\ forceLoop.i >= Len(forceLoop.text)
  /\ LET f == forceLoop
     IN forceLoop' =
          [f EXCEPT !.pc = "done",
                    !.units = IF f.currentText # <<>>
                              THEN Append(@, unitOf(f.currentText, f.startPos,
                                                    Len(f.text)))
                              ELSE @]
  /\ UNCHANGED <<voiceVars, deletionVars, configVars, segVars, sanVars,
                 alignVars, envVars, readerVars>>

NextForce == ForceStep \/ ForceReturn

SpecForce == InitForce /\ [][NextForce]_vars

\* the loop is scheduled until it returns
FairSpecForce == SpecForce /\ WF_vars(NextForce)

----------------------------------------------------------------------------
(* SpecVoice: one call of findTargetVoice on any list of voices.           *)

MaxVoices == 2

includes(s, sub) == indexOf(s, sub, 0) # -1

\* Array.prototype.find, passing being the indices of the elements that pass
\* the test: the first of them, as a sequence of one element, or the empty
\* sequence for undefined
find(arr, passing) ==
  IF passing = {} THEN <<>>
  ELSE <<arr[CHOOSE i \in passing : \A j \in passing : i <= j]>>

nameMatches(v, target) == includes(v.name, target)
langMatches(v) == includes(v.lang, <<"z", "h">>)

\* the language looked at before the name
findTargetVoiceByLangFirst(vs, target) ==
  LET byName == {i \in 1..Len(vs) : nameMatches(vs[i], target)}
      byLang == {i \in 1..Len(vs) : langMatches(vs[i])}
  IN IF find(vs, byLang) # <<>> THEN find(vs, byLang)
     ELSE IF find(vs, byName) # <<>> THEN find(vs, byName)
     ELSE IF vs # <<>> THEN <<vs[1]>> ELSE <<>>

findTargetVoice(vs, target) ==
  LET byName == {i \in 1..Len(vs) : nameMatches(vs[i], target)}
      byLang == {i \in 1..Len(vs) : langMatches(vs[i])}
  IN IF find(vs, byName) # <<>> THEN find(vs, byName)
     ELSE IF find(vs, byLang) # <<>> THEN find(vs, byLang)
     ELSE IF vs # <<>> THEN <<vs[1]>> ELSE <<>>

VoiceNames == StringsUpTo({"Y", "x"}, 2)
VoiceLangs == {<<"z", "h">>, <<"e", "n">>, <<"x", "z", "h">>}
Voices == [name : VoiceNames, lang : VoiceLangs]
TargetNames == {<<"Y">>, <<"x", "Y">>}

InitVoice ==
  /\ voiceList \in UNION {[1..k -> Voices] : k \in 0..MaxVoices}
  /\ targetVoiceName \in TargetNames
  /\ selectedVoice = <<>>
  /\ voicePc = "call"
  /\ maxTextWidth = 64 /\ font = "mono"
  /\ idleSeg /\ idleSan /\ idleAlign /\ idleReader
  /\ idleForce /\ idleDeletion

FindTargetVoice ==
  /\ voicePc = "call"
  /\ selectedVoice' = findTargetVoice(voiceList, targetVoiceName)
  /\ voicePc' = "ret"
  /\ UNCHANGED <<voiceList, targetVoiceName, forceVars, deletionVars,
                 configVars, segVars, sanVars, alignVars, envVars, readerVars>>

NextVoice == FindTargetVoice

SpecVoice == InitVoice /\ [][NextVoice]_vars

---------------------------------------------------------------------------
(* Properties of the Segmenter (SpecSeg).                                  *)

concatTexts(units) ==
  LET RECURSIVE go(_)
      go(k) == IF k = 0 THEN <<>> ELSE go(k - 1) \o units[k].text
  IN go(Len(units))

\* C1 (Coverage): the texts of the units smartSplitText returns, put end to
\* end in order, are the input line: nothing lost, nothing twice.
C1_Coverage ==
  segPc = "ret" => concatTexts(segUnits) = segText

\* C2 (Width bound): every unit smartSplitText returns measures at most
\* maxTextWidth, unless it is a single character.
C2_WidthBound ==
  segPc = "ret" =>
    \A k \in 1..Len(segUnits) :
      Len(segUnits[k].text) = 1 \/ getTextWidth(segUnits[k].text) <= maxTextWidth

\* a line without marks that the hard tier cut into several units, one of
\* them of several characters and exactly as wide as the budget
C2_Witness ==
  /\ segPc = "ret"
  /\ \A k \in 1..Len(segText) : segText[k] \notin SentenceMark \cup ClauseMark
  /\ Len(segUnits) >= 2
  /\ \E k \in 1..Len(segUnits) :
       Len(segUnits[k].text) >= 2 /\ getTextWidth(segUnits[k].text) = maxTextWidth

\* the sentences of text for a set of terminating marks: <<a, b>> when
\* positions a..b-1 (0-based) are a maximal non-empty run of characters that
\* are no mark followed by one mark
sentencesOf(text, marks) ==
  {p \in (0..Len(text)) \X (0..Len(text)) :
     /\ p[1] + 1 < p[2]
     /\ text[p[2]] \in marks
     /\ \A k \in (p[1] + 1)..(p[2] - 1) : text[k] \notin marks
     /\ p[1] = 0 \/ text[p[1]] \in marks}

\* each sentence that fits is exactly one unit
sentencesKept(marks) ==
  \A p \in sentencesOf(segText, marks) :
    fits(substring(segText, p[1], p[2])) =>
      /\ \E k \in 1..Len(segUnits) :
           segUnits[k] = unitOf(substring(segText, p[1], p[2]), p[1], p[2])
      /\ \A k \in 1..Len(segUnits) :
           (segUnits[k].start < p[2] /\ segUnits[k].end > p[1]) =>
             (segUnits[k].start = p[1] /\ segUnits[k].end = p[2])

\* C16 as stated: when the line exceeds maxTextWidth, every sentence ended
\* by a wide or narrow full stop, question mark or exclamation mark that is
\* within maxTextWidth is emitted as exactly one unit, unsplit.
C16_SentenceTierNarrowStop ==
  (segPc = "ret" /\ ~fits(segText)) =>
    sentencesKept(SentenceMark \cup {"."})

\* C16 amended: the same for the sentences ended by a wide full stop or a
\* wide or narrow question mark or exclamation mark; the narrow full stop
\* ends a clause, not a sentence.
C16_SentenceTier ==
  (segPc = "ret" /\ ~fits(segText)) => sentencesKept(SentenceMark)

\* a line over the budget with a sentence that holds a clause mark, fits and
\* is one unit
C16_Witness ==
  /\ segPc = "ret" /\ ~fits(segText)
  /\ \E p \in sentencesOf(segText, SentenceMark) :
       /\ fits(substring(segText, p[1], p[2]))
       /\ \E k \in (p[1] + 1)..(p[2] - 1) : segText[k] \in ClauseMark
       /\ \E k \in 1..Len(segUnits) :
            segUnits[k] = unitOf(substring(segText, p[1], p[2]), p[1], p[2])

copies(c, n) == [i \in 1..n |-> c]

\* C17 (hard-tier split size): a line of n identical characters that are no
\* marks, with maxTextWidth the measured width of k of them, is cut into
\* ceil(n / k) units of k characters each, the last one holding the rest.
C17_HardTierSizes ==
  segPc = "ret" =>
    \A k \in 1..(MaxLen + 1) :
      LET n == Len(segText)
          m == Len(segUnits)
      IN (/\ segText = copies(segText[1], n)
          /\ segText[1] \notin SentenceMark \cup ClauseMark
          /\ maxTextWidth = getTextWidth(copies(segText[1], k))) =>
           /\ m = (n + k - 1) \div k
           /\ \A u \in 1..m :
                /\ Len(segUnits[u].text) = IF u < m THEN k ELSE n - k * (m - 1)
                /\ segUnits[u].start = k * (u - 1)
                /\ segUnits[u].end = segUnits[u].start + Len(segUnits[u].text)
           /\ concatTexts(segUnits) = segText

\* identical characters cut into units of several characters, the last one
\* shorter
C17_Witness ==
  /\ segPc = "ret"
  /\ segText = copies(segText[1], Len(segText))
  /\ segText[1] \notin SentenceMark \cup ClauseMark
  /\ Len(segUnits) >= 2
  /\ Len(segUnits[1].text) >= 2
  /\ maxTextWidth = getTextWidth(segUnits[1].text)
  /\ Len(segUnits[Len(segUnits)].text) < Len(segUnits[1].text)

---------------------------------------------------------------------------
(* Properties of the Sanitizer (SpecSan).                                  *)

\* C8 (length-preserving sanitize): for a link followed by prose the result
\* of filterTextKeepLength is as long as the input, holds a space at every
\* position of the link and the prose characters where they were.
C8_KeepLength ==
  sanPc = "ret" =>
    LET linkEnd == findIn(sanIn, 0, WhiteSpace)
    IN /\ Len(sanOut) = Len(sanIn)
       /\ \A k \in 1..Len(sanOut) :
            sanOut[k] = IF k <= linkEnd THEN " " ELSE sanIn[k]

---------------------------------------------------------------------------
(* Properties of the Aligner (SpecAlign).                                  *)

\* positions (0-based) of the offset index that hold unit u
cellsOf(u) ==
  {k \in 0..(Len(aligned.charToUnitMap) - 1) : aligned.charToUnitMap[k + 1] = u}

minOf(S) == CHOOSE x \in S : \A y \in S : x <= y
maxOf(S) == CHOOSE x \in S : \A y \in S : y <= x
contiguous(S) == S = {} \/ S = minOf(S)..maxOf(S)

\* where line i (1-based) begins in the space-joined spoken form
RECURSIVE lineStart(_)
lineStart(i) ==
  IF i = 1 THEN 0
  ELSE lineStart(i - 1) + Len(filterTextKeepLength(textLines[i - 1])) + 1

lineSpan(i) ==
  lineStart(i)..(lineStart(i) + Len(filterTextKeepLength(textLines[i])) - 1)

unitsOfLine(i) ==
  IF filterTextComplete(textLines[i]) = <<>> THEN <<>>
  ELSE smartSplitText(filterTextComplete(textLines[i]))

\* index, in line-then-unit order, of the first unit of line i
RECURSIVE unitBase(_)
unitBase(i) ==
  IF i = 1 THEN 0 ELSE unitBase(i - 1) + Len(unitsOfLine(i - 1))

\* C3 (Index consistency): the offset index is as long as the spoken form
\* and each cell is the sentinel -1 or the index of a display unit.
C3_IndexConsistency ==
  alignPc = "ret" =>
    /\ Len(aligned.charToUnitMap) = Len(aligned.cleanedText)
    /\ \A k \in 1..Len(aligned.charToUnitMap) :
         \/ aligned.charToUnitMap[k] = -1
         \/ /\ aligned.charToUnitMap[k] >= 0
            /\ aligned.charToUnitMap[k] < Len(aligned.displayUnits)

\* two lines mapped, with a sentinel cell on the seam between them
C3_Witness ==
  /\ alignPc = "ret"
  /\ Len(aligned.displayUnits) >= 2
  /\ cellsOf(-1) # {}
  /\ cellsOf(1) # {}

\* C5: unit j of a line cut into several units owns its own contiguous
\* sub-span of that line's span, as long as its own sanitized text, the
\* sub-spans in segmentation order; none owns the whole line's span or a
\* span of another line.
C5_UnitSubSpans ==
  alignPc = "ret" =>
    \A i \in 1..Len(textLines) :
      Len(unitsOfLine(i)) >= 2 =>
        \A j \in 1..Len(unitsOfLine(i)) :
          LET u == unitBase(i) + j - 1
          IN /\ u < Len(aligned.displayUnits)
             /\ aligned.displayUnits[u + 1].text = unitsOfLine(i)[j].text
             /\ cellsOf(u) # {}
             /\ contiguous(cellsOf(u))
             /\ cellsOf(u) \subseteq lineSpan(i)
             /\ Cardinality(cellsOf(u))
                  = Len(filterTextComplete(unitsOfLine(i)[j].text))
             /\ j > 1 => /\ cellsOf(u - 1) # {}
                         /\ minOf(cellsOf(u)) > maxOf(cellsOf(u - 1))

normalizeSpace(s) == trim(collapseSpaces(s))

\* C6: for each unit that owns a cell, the spoken form from its first cell
\* to its last cell is, up to whitespace, the unit's sanitized text.
C6_SliceIsUnitText ==
  alignPc = "ret" =>
    \A u \in 0..(Len(aligned.displayUnits) - 1) :
      cellsOf(u) # {} =>
        normalizeSpace(substring(aligned.cleanedText,
                                 minOf(cellsOf(u)), maxOf(cellsOf(u)) + 1))
          = normalizeSpace(filterTextComplete(aligned.displayUnits[u + 1].text))

\* C9 (Cursor monotonicity): when a line occurs twice, the units of the first
\* occurrence are mapped inside its span and the units of the second at or
\* after the end of that span; the spans of successive units never overlap
\* and strictly increase.
C9_CursorMonotone ==
  alignPc = "ret" =>
    /\ \A u \in 1..(Len(aligned.displayUnits) - 1) :
         /\ aligned.displayUnits[u].start < aligned.displayUnits[u + 1].start
         /\ aligned.displayUnits[u].end <= aligned.displayUnits[u + 1].start
    /\ \A i1, i2 \in 1..Len(textLines) :
         (i1 < i2 /\ textLines[i1] = textLines[i2]) =>
           /\ \A j \in 1..Len(unitsOfLine(i1)) :
                /\ unitBase(i1) + j - 1 < Len(aligned.displayUnits)
                /\ cellsOf(unitBase(i1) + j - 1) # {}
                /\ cellsOf(unitBase(i1) + j - 1) \subseteq lineSpan(i1)
           /\ \A j \in 1..Len(unitsOfLine(i2)) :
                /\ unitBase(i2) + j - 1 < Len(aligned.displayUnits)
                /\ cellsOf(unitBase(i2) + j - 1) # {}
                /\ minOf(cellsOf(unitBase(i2) + j - 1)) > maxOf(lineSpan(i1))

\* the sanitized text of unit u occurs in the spoken form
foundInSpokenForm(u) ==
  indexOf(aligned.cleanedText,
          filterTextComplete(aligned.displayUnits[u + 1].text), 0) # -1

\* C14: a unit of displayUnits owns at least one cell of the offset index if
\* and only if its sanitized text was found in the spoken form; no later
\* unit takes all the cells of an earlier one.
C14_CellsIffFound ==
  alignPc = "ret" =>
    \A u \in 0..(Len(aligned.displayUnits) - 1) :
      (cellsOf(u) # {}) <=> foundInSpokenForm(u)

\* a line cut into several units, of which a later one was mapped after an
\* earlier one, each still owning cells
C14_Witness ==
  /\ alignPc = "ret"
  /\ Len(unitsOfLine(1)) >= 2
  /\ Len(aligned.displayUnits) >= 2
  /\ \A u \in 0..(Len(aligned.displayUnits) - 1) :
       cellsOf(u) # {} /\ foundInSpokenForm(u)

\* the units of every line, in line-then-unit order
RECURSIVE unitsUpTo(_)
unitsUpTo(i) == IF i = 0 THEN <<>> ELSE unitsUpTo(i - 1) \o unitsOfLine(i)

\* C15: a unit that could not be located is still in displayUnits, in
\* line-then-unit order, and owns no cell; its line is still part of the
\* spoken form.
C15_MissKeepsUnits ==
  alignPc = "ret" =>
    LET all == unitsUpTo(Len(textLines))
    IN /\ Len(aligned.displayUnits) = Len(all)
       /\ \A u \in 1..Len(all) : aligned.displayUnits[u].text = all[u].text
       /\ aligned.cleanedText
            = join([i \in 1..Len(textLines) |->
                      filterTextKeepLength(textLines[i])])

C21_SpokenForm ==
  alignPc = "ret" =>
    LET n == Len(textLines)
        spoken(i) == filterTextKeepLength(textLines[i])
    IN /\ Len(aligned.cleanedText) = lineStart(n) + Len(spoken(n))
       /\ \A i \in 1..n :
            substring(aligned.cleanedText, lineStart(i),
                      lineStart(i) + Len(spoken(i))) = spoken(i)
       /\ \A i \in 2..n : aligned.cleanedText[lineStart(i)] = " "

\* several lines, of which some unit was not mapped
C21_Witness ==
  /\ alignPc = "ret"
  /\ Len(textLines) >= 2
  /\ Len(aligned.displayUnits) < Len(unitsUpTo(Len(textLines)))
  /\ Len(aligned.cleanedText) > Len(textLines)

---------------------------------------------------------------------------
(* Properties of the read session (Spec).                                  *)

\* C4 (Idempotent synchronization): in each session, the events in a row
\* that resolve to one unit produce one "show unit" effect, emitted at the
\* first of them (events that resolve to no unit do not end the row).
C4_OneShowPerRun ==
  \A s \in 1..Len(utterances) :
    utterances[s].run.unit # -1 => utterances[s].run.shows = 1

\* several events in a row resolved to the same unit
C4_Witness ==
  \E s \in 1..Len(utterances) :
    /\ utterances[s].run.events = 2
    /\ utterances[s].run.shows = 1
    /\ utterances[s].currentUnitIndex = utterances[s].run.unit

\* C7: the string handed to the speech engine is, character for character,
\* the spoken form processText returned (the one charToUnitMap indexes).
C7_SpokenFormSubmitted ==
  \A s \in 1..Len(utterances) :
    utterances[s].text = utterances[s].cleanedText

\* C10: a progress event of a superseded session, delivered after the new
\* session started, changes neither the caption nor the new session's
\* currentUnitIndex.
C10_LateEventIgnored ==
  [][\A s \in 1..(Len(utterances) - 1) :
       \A name \in EventNames, charIndex \in 0..Len(utterances[s].text) :
         Boundary(s, name, charIndex) =>
           /\ subtitle' = subtitle
           /\ utterances'[Len(utterances)].currentUnitIndex
                = utterances[Len(utterances)].currentUnitIndex]_vars

\* C11: in every startReading the engine is told to cancel before the new
\* session's spoken form is submitted: each speak effect follows a cancel of
\* the same startReading, and once the new utterance is submitted no earlier
\* utterance is still being spoken.
C11_CancelBeforeSpeak ==
  /\ \A k \in 1..Len(effects) :
       effects[k].type = "speak" =>
         \E j \in 1..(k - 1) : /\ effects[j].type = "cancel"
                               /\ effects[j].session = effects[k].session
  /\ \A s \in 1..Len(utterances) :
       utterances[s].status = "speaking" => s = Len(utterances)

\* a second session was submitted while the first was still being spoken
C11_Witness ==
  /\ Len(utterances) >= 2
  /\ utterances[1].status = "cancelled"
  /\ utterances[Len(utterances)].status = "speaking"
  /\ \E k \in 1..Len(effects) :
       effects[k].type = "speak" /\ effects[k].session = Len(utterances)

\* C12: each session emits reading-complete exactly once, when its reading
\* is over: never twice, never while it is still being spoken, and a session
\* whose reading is over (spoken to its end, stopped or superseded) has
\* emitted it.
C12_CompleteExactlyOnce ==
  \A s \in 1..Len(utterances) :
    /\ utterances[s].completes <= 1
    /\ utterances[s].status = "speaking" => utterances[s].completes = 0
    /\ utterances[s].status \in {"ended", "dropped"} =>
         utterances[s].completes = 1

\* C13: a progress event that is neither a word nor a sentence boundary, or
\* whose offset holds the sentinel or lies at or past the end of the offset
\* index, leaves the currentUnitIndex of every session, the caption and its
\* class unchanged and emits no effect.
C13_IgnoredEvents ==
  [][lastEvent' \in {"kind", "past-end", "sentinel"} =>
       /\ Len(utterances') = Len(utterances)
       /\ \A s \in 1..Len(utterances) :
            utterances'[s].currentUnitIndex = utterances[s].currentUnitIndex
       /\ subtitle' = subtitle
       /\ className' = className
       /\ effects' = <<>>]_vars

\* an event on a sentinel cell was delivered to a session that had switched
\* to a unit and whose unit is on display
C13_Witness ==
  /\ lastEvent = "sentinel"
  /\ subtitle.kind = "text"
  /\ \E s \in 1..Len(utterances) :
       /\ subtitle.session = s
       /\ utterances[s].status = "speaking"
       /\ utterances[s].currentUnitIndex # -1

\* C18: while the markup parser is not loaded, a setText surfaces the error
\* and starts nothing: no startReading is scheduled, no voice-list handler
\* installed, no loading animation shown, no utterance ever submitted.
C18_NoParserNoRead ==
  [][~marked =>
       /\ timers' = 0
       /\ onvoiceschanged' = FALSE
       /\ utterances' = <<>>
       /\ content' = <<>>
       /\ subtitle'.kind # "loading"
       /\ \A k \in 1..Len(effects') :
            effects'[k].type \notin {"loading", "speak", "reading-start"}
       /\ reads' = reads + 1 => effects' = <<effect("error", 0, -1)>>]_vars

\* a read was requested without the parser, then the voice list arrived
C18_Witness ==
  /\ ~marked
  /\ reads >= 1
  /\ voices /\ effects = <<>>
  /\ timers = 0 /\ utterances = <<>>

\* C19: whenever a unit is on display, the class of the caption is
\* multi-line exactly when the unit's measured width exceeds maxWindowWidth,
\* with the standalone flag set or not.
C19_SizeClass ==
  subtitle.kind = "text" =>
    (className = "multi-line" <=> getTextWidth(subtitle.text) > maxWindowWidth)

\* C25: stopReading stops what is spoken and shows the completion
\* animation, and from then until the next setText no unit is shown and no
\* utterance is submitted, also when a startReading was still pending.
C25_StopDiscardsSession ==
  [][/\ effects' = <<effect("cancel", 0, -1), effect("completion", 0, -1)>> =>
          /\ subtitle'.kind = "completion"
          /\ \A s \in 1..Len(utterances') : utterances'[s].status # "speaking"
     /\ aborted =>
          \A k \in 1..Len(effects') : effects'[k].type \notin {"show", "speak"}]_vars

\* C26: an event that resolves to a unit other than currentUnitIndex, higher
\* or lower, sets currentUnitIndex to that unit and emits exactly one show
\* effect with that unit's text.
C26_RegressionSwitches ==
  [][lastEvent' \in {"forward", "back"} =>
       /\ Len(effects') >= 1
       /\ effects'[1].type = "show"
       /\ \A k \in 2..Len(effects') : effects'[k].type # "show"
       /\ effects'[1].session \in 1..Len(utterances)
       /\ LET s == effects'[1].session
              unit == utterances'[s].run.unit
          IN /\ utterances'[s].currentUnitIndex = unit
             /\ utterances[s].currentUnitIndex # unit
             /\ lastEvent' = "back" => unit < utterances[s].currentUnitIndex
             /\ effects'[1].unit = unit
             /\ subtitle' = [kind |-> "text",
                             text |-> utterances[s].displayUnits[unit + 1].text,
                             session |-> s]]_vars

\* an event went back to the first unit after the second had been shown
C26_Witness ==
  /\ lastEvent = "back"
  /\ Len(effects) >= 1
  /\ effects[1].type = "show" /\ effects[1].unit = 0
  /\ effects[1].session \in 1..Len(utterances)
  /\ utterances[effects[1].session].currentUnitIndex = 0
  /\ subtitle.kind = "text"

\* C22: the voice selected is the first voice whose name contains the
\* preferred name; when no name does, the first voice whose language tag
\* contains zh; when no tag does either, the first voice of the list.
C22_VoiceChoice ==
  voicePc = "ret" /\ voiceList # <<>> =>
    LET n == Len(voiceList)
        named(i) == includes(voiceList[i].name, targetVoiceName)
        tagged(i) == includes(voiceList[i].lang, <<"z", "h">>)
    IN \E k \in 1..n :
         /\ selectedVoice = <<voiceList[k]>>
         /\ \/ named(k) /\ \A j \in 1..(k - 1) : ~named(j)
            \/ /\ \A j \in 1..n : ~named(j)
               /\ tagged(k) /\ \A j \in 1..(k - 1) : ~tagged(j)
            \/ /\ \A j \in 1..n : ~named(j) /\ ~tagged(j)
               /\ k = 1

\* a voice of the target language comes first, a voice with the preferred
\* name second, and the second is selected
C22_Witness ==
  /\ voicePc = "ret" /\ Len(voiceList) = 2
  /\ includes(voiceList[1].lang, <<"z", "h">>)
  /\ ~includes(voiceList[1].name, targetVoiceName)
  /\ includes(voiceList[2].name, targetVoiceName)
  /\ ~includes(voiceList[2].lang, <<"z", "h">>)
  /\ selectedVoice = <<voiceList[2]>>

\* what is left for the loop of forceSplitText to do: the characters not yet
\* read count twice, the characters accumulated once
forceVariant(f) == 2 * (Len(f.text) - f.i) + Len(f.currentText)

\* C24: forceSplitText returns for every text and width: every iteration of
\* its loop lessens forceVariant, which is never negative, and the loop is
\* left in the end.  Every unit it emits holds at least one character and
\* the next unit starts behind it, and a single character wider than the
\* budget is emitted alone, the loop going on with the next character.
C24_ForceProgress ==
  /\ [][forceLoop.pc = "loop" =>
          LET f == forceLoop
              g == forceLoop'
              last == g.units[Len(g.units)]
          IN /\ forceVariant(f) >= 0
             /\ g.pc = "loop" => forceVariant(g) < forceVariant(f)
             /\ Len(g.units) \in {Len(f.units), Len(f.units) + 1}
             /\ Len(g.units) > Len(f.units) =>
                  /\ Len(last.text) >= 1
                  /\ last.end = last.start + Len(last.text)
                  /\ last.start = f.startPos
                  /\ g.pc = "loop" => g.startPos = last.end /\ g.i = last.end
                  /\ g.pc = "done" => last.end = Len(f.text)
             /\ (/\ f.i < Len(f.text) /\ f.currentText = <<>>
                 /\ ~fits(<<f.text[f.i + 1]>>)) =>
                  /\ g.units = Append(f.units,
                                      unitOf(<<f.text[f.i + 1]>>, f.i, f.i + 1))
                  /\ g.i = f.i + 1]_vars
  /\ <>(forceLoop.pc = "done")

\* the loop returned, and one of its units is a single character wider than
\* the budget, another a character that fits
C24_Witness ==
  /\ forceLoop.pc = "done"
  /\ \E k \in 1..Len(forceLoop.units) :
       Len(forceLoop.units[k].text) = 1 /\ ~fits(forceLoop.units[k].text)
  /\ \E k \in 1..Len(forceLoop.units) : fits(forceLoop.units[k].text)
  /\ forceLoop.units = forceSplitText(forceLoop.text, 0)

\* where the last match of a list of matches ends
matchesEnd(matches) ==
  matches[Len(matches)].index + Len(matches[Len(matches)].text)

\* C27: no unit of a line has an empty text, and when the line does not fit
\* and nothing but white space is left behind its last sentence (behind its
\* last clause, when it has no sentence) no unit is made of what is left:
\* every unit ends at or before the end of the last match.
C27_RemainderDropped ==
  segPc = "ret" =>
    LET sentences == sentenceMatches(segText)
        clauses == punctMatches(segText)
        matches == IF Len(sentences) > 0 THEN sentences ELSE clauses
        rest == substring(segText, matchesEnd(matches), Len(segText))
    IN /\ \A k \in 1..Len(segUnits) :
            Len(segUnits[k].text) >= 1 /\ segUnits[k].end > segUnits[k].start
       /\ (~fits(segText) /\ Len(matches) > 0 /\ rest \in Seq(WhiteSpace)) =>
            \A k \in 1..Len(segUnits) : segUnits[k].end <= matchesEnd(matches)

\* a line over the budget that ends in white space behind its last sentence
C27_Witness ==
  /\ segPc = "ret" /\ ~fits(segText)
  /\ Len(sentenceMatches(segText)) > 0
  /\ matchesEnd(sentenceMatches(segText)) < Len(segText)
  /\ substring(segText, matchesEnd(sentenceMatches(segText)), Len(segText))
       \in Seq(WhiteSpace)
  /\ segUnits # <<>>
  /\ segUnits[Len(segUnits)].end = matchesEnd(sentenceMatches(segText))

\* C28: every unit returned for a line is the piece of the line between its
\* start and its end, start before end and both inside the line, and the
\* units come in the order of their positions without overlap.
C28_UnitPositions ==
  segPc = "ret" =>
    \A k \in 1..Len(segUnits) :
      /\ 0 <= segUnits[k].start
      /\ segUnits[k].start < segUnits[k].end
      /\ segUnits[k].end <= Len(segText)
      /\ segUnits[k].text
           = substring(segText, segUnits[k].start, segUnits[k].end)
      /\ k > 1 => segUnits[k].start >= segUnits[k - 1].end

\* a line cut by all three tiers: a sentence that fits, and behind it a
\* clause that does not and is cut by width at a base position above 0
C28_Witness ==
  /\ segPc = "ret" /\ Len(segUnits) >= 3
  /\ Len(sentenceMatches(segText)) > 0
  /\ segUnits[1] = unitOf(sentenceMatches(segText)[1].text, 0,
                          Len(sentenceMatches(segText)[1].text))
  /\ fits(segUnits[1].text)
  /\ \E k \in 2..(Len(segUnits) - 1) :
       /\ segUnits[k].start > 0
       /\ ~fits(substring(segText, segUnits[k].start, segUnits[k + 1].end))
       /\ segUnits[k].text[Len(segUnits[k].text)] \notin ClauseMark \cup SentenceMark
       /\ segUnits[k + 1].start = segUnits[k].end

\* C29: every line with a display text is located: a cell of the offset
\* index inside the line's own span of the spoken form belongs to a unit
\* that was cut from that line.
C29_EveryLineLocated ==
  alignPc = "ret" =>
    \A i \in 1..Len(textLines) :
      filterTextComplete(textLines[i]) # <<>> =>
        \E k \in lineSpan(i) :
          /\ aligned.charToUnitMap[k + 1] # -1
          /\ aligned.origin[aligned.charToUnitMap[k + 1] + 1] = i

\* C30: the text line i is searched with in the cleaned full text is the
\* cleaned form of line i itself, whatever the lines before it clean to.
C30_LocatedByOwnText ==
  deletionPc = "ret" =>
    /\ Len(subtitleData.located) = Len(mdLines)
    /\ \A i \in 1..Len(mdLines) :
         subtitleData.located[i].needle = cleanText(mdLines[i])

===========================================================================
